---- MODULE Spec2Model ----
(***************************************************************************)
(* Semantic router configurator (src/app.py): the plugin validator, the    *)
(* configuration validator, the configuration generator and the HTTP       *)
(* handlers that call them, as a state machine whose actions are single    *)
(* calls.  Python values are tagged records; a Python exception is an      *)
(* outcome with raised = TRUE.                                             *)
(***************************************************************************)
EXTENDS Integers, Sequences, FiniteSets, TLC

VARIABLES
    SUPPORTED_PLUGINS,        \* module global, app.py:20
    PLUGIN_SCHEMAS,           \* module global, app.py:31
    CONFIGURATION_TEMPLATES,  \* module global, app.py:63
    pc,                       \* "ready" for a call, or "returned" from one
    op,                       \* the call that returned
    arg0,                     \* the caller's input object as it was passed in
    arg,                      \* the caller's input object after the call
    out,                      \* what the call returned (or that it raised)
    selfcheck                 \* whether the handler ran validate_config on its output

vars == <<SUPPORTED_PLUGINS, PLUGIN_SCHEMAS, CONFIGURATION_TEMPLATES,
          pc, op, arg0, arg, out, selfcheck>>

tables == <<SUPPORTED_PLUGINS, PLUGIN_SCHEMAS, CONFIGURATION_TEMPLATES>>

---------------------------------------------------------------------------
(* Python values.  A float is the rational n/d with d > 0; a mapping is    *)
(* the ordered sequence of its <<key, value>> pairs (dicts keep insertion  *)
(* order).                                                                 *)

Null == [t |-> "null"]
B(b) == [t |-> "bool", b |-> b]
I(n) == [t |-> "int", i |-> n]
F(n, d) == [t |-> "float", n |-> n, d |-> d]
S(s) == [t |-> "str", s |-> s]
L(items) == [t |-> "list", v |-> items]
M(pairs) == [t |-> "map", kv |-> pairs]

\* bool(v): the truth value Python gives v in `not v` and `a or b`.
Truthy(v) ==
    CASE v.t = "null" -> FALSE
      [] v.t = "bool" -> v.b
      [] v.t = "int" -> v.i # 0
      [] v.t = "float" -> v.n # 0
      [] v.t = "str" -> v.s # ""
      [] v.t = "list" -> v.v # <<>>
      [] v.t = "map" -> v.kv # <<>>

\* a or b
PyOr(a, b) == IF Truthy(a) THEN a ELSE b

\* needle in hay, for two str
StrContains(needle, hay) ==
    \E k \in 1..(Len(hay) - Len(needle) + 1) :
        SubSeq(hay, k, k + Len(needle) - 1) = needle

\* `key in v` raises TypeError unless v is a container or a str.
CanContain(v) == v.t \in {"map", "list", "str"}

\* key in v, for a str key, where CanContain(v)
PyIn(key, v) ==
    CASE v.t = "map" -> \E k \in 1..Len(v.kv) : v.kv[k][1] = key
      [] v.t = "list" -> \E k \in 1..Len(v.v) : v.v[k] = S(key)
      [] v.t = "str" -> StrContains(key, v.s)

\* v[key] with a str key raises TypeError on a list or a str.
CanSubscript(v) == v.t = "map"

\* v[key], where v is a mapping that holds key
Subscript(v, key) ==
    LET k == CHOOSE k \in 1..Len(v.kv) :
                 /\ v.kv[k][1] = key
                 /\ \A j \in 1..Len(v.kv) : v.kv[j][1] = key => j <= k
    IN  v.kv[k][2]

\* v.get(key, default), where v is a mapping
Get(v, key, default) == IF PyIn(key, v) THEN Subscript(v, key) ELSE default

\* iter(v) raises TypeError unless v is a container or a str.
Iterable(v) == v.t \in {"map", "list", "str"}

\* the keys of a mapping as str values, and the characters of a str, from
\* position k on
RECURSIVE KeyItems(_, _), CharItems(_, _)
KeyItems(pairs, k) ==
    IF k > Len(pairs) THEN <<>>
    ELSE <<S(pairs[k][1])>> \o KeyItems(pairs, k + 1)
CharItems(s, k) ==
    IF k > Len(s) THEN <<>>
    ELSE <<S(SubSeq(s, k, k))>> \o CharItems(s, k + 1)

\* list(v): the elements of a list, the keys of a mapping, the characters of a str
Items(v) ==
    CASE v.t = "list" -> v.v
      [] v.t = "map" -> KeyItems(v.kv, 1)
      [] v.t = "str" -> CharItems(v.s, 1)

\* isinstance(v, bool); isinstance(v, int), which a bool satisfies;
\* isinstance(v, (int, float))
IsBool(v) == v.t = "bool"
IsInt(v) == v.t \in {"int", "bool"}
IsNumber(v) == v.t \in {"int", "bool", "float"}

\* the integer an int or a bool compares as
IntOf(v) == IF v.t = "bool" THEN (IF v.b THEN 1 ELSE 0) ELSE v.i

\* v < 0 and v > 1, for a number
LessThanZero(v) == IF v.t = "float" THEN v.n < 0 ELSE IntOf(v) < 0
GreaterThanOne(v) == IF v.t = "float" THEN v.n > v.d ELSE IntOf(v) > 1

\* str(v) as an f-string formats it, for the scalars the defect texts format
PyStr(v) ==
    CASE v.t = "str" -> v.s
      [] v.t = "int" -> ToString(v.i)
      [] v.t = "bool" -> (IF v.b THEN "True" ELSE "False")
      [] v.t = "null" -> "None"

---------------------------------------------------------------------------
(* Outcomes of the validators: a list of defect strings, or an exception.  *)

Ok(errors) == [raised |-> FALSE, exc |-> "", errors |-> errors]
Raise(exc) == [raised |-> TRUE, exc |-> exc, errors |-> <<>>]

\* a; b  -- statement b runs after a unless a raised
Then(a, b) ==
    IF a.raised THEN a
    ELSE IF b.raised THEN b
    ELSE Ok(a.errors \o b.errors)

---------------------------------------------------------------------------
(* The static tables as the module sets them at import.                    *)

SupportedPluginsInit ==
    <<"semantic-cache", "jailbreak", "pii", "system_prompt",
      "header_mutation", "hallucination", "router_replay">>

PluginSchemasInit ==
    [ty \in {SupportedPluginsInit[k] : k \in 1..Len(SupportedPluginsInit)} |->
        CASE ty = "semantic-cache" ->
               [required |-> <<"enabled">>,
                optional |-> <<"similarity_threshold", "ttl_seconds">>]
          [] ty = "jailbreak" ->
               [required |-> <<"enabled">>, optional |-> <<"threshold">>]
          [] ty = "pii" ->
               [required |-> <<"enabled">>,
                optional |-> <<"threshold", "pii_types_allowed">>]
          [] ty = "system_prompt" ->
               [required |-> <<"enabled">>,
                optional |-> <<"system_prompt", "mode">>]
          [] ty = "header_mutation" ->
               [required |-> <<>>, optional |-> <<"add", "update", "delete">>]
          [] ty = "hallucination" ->
               [required |-> <<"enabled">>,
                optional |-> <<"use_nli", "hallucination_action">>]
          [] ty = "router_replay" ->
               [required |-> <<"enabled">>,
                optional |-> <<"max_records", "capture_request_body",
                               "capture_response_body", "max_body_bytes">>]]

DefaultUrl == "http://localhost:8000/v1/chat/completions"

Endpoint(name, url) == M(<< <<"name", S(name)>>, <<"url", S(url)>> >>)

Plugin(ty, configuration) ==
    M(<< <<"type", S(ty)>>, <<"configuration", configuration>> >>)

TemplateNames == {"basic", "cached", "secure", "multi-model"}

ConfigurationTemplatesInit ==
    [nm \in TemplateNames |->
        CASE nm = "basic" ->
               [name |-> "Basic Configuration",
                description |-> "Simple single-endpoint configuration",
                config |-> M(<< <<"version", S("1.0")>>,
                                <<"port", I(8888)>>,
                                <<"endpoints", L(<<Endpoint("default", DefaultUrl)>>)>> >>)]
          [] nm = "cached" ->
               [name |-> "Cached Configuration",
                description |-> "Configuration with semantic caching enabled",
                config |-> M(<< <<"version", S("1.0")>>,
                                <<"port", I(8888)>>,
                                <<"endpoints", L(<<Endpoint("default", DefaultUrl)>>)>>,
                                <<"plugins", L(<<
                                    Plugin("semantic-cache",
                                        M(<< <<"enabled", B(TRUE)>>,
                                             <<"similarity_threshold", F(92, 100)>>,
                                             <<"ttl_seconds", I(3600)>> >>)) >>)>> >>)]
          [] nm = "secure" ->
               [name |-> "Secure Configuration",
                description |-> "Configuration with security plugins enabled",
                config |-> M(<< <<"version", S("1.0")>>,
                                <<"port", I(8888)>>,
                                <<"endpoints", L(<<Endpoint("default", DefaultUrl)>>)>>,
                                <<"plugins", L(<<
                                    Plugin("jailbreak",
                                        M(<< <<"enabled", B(TRUE)>>,
                                             <<"threshold", F(8, 10)>> >>)),
                                    Plugin("pii",
                                        M(<< <<"enabled", B(TRUE)>>,
                                             <<"threshold", F(7, 10)>> >>)) >>)>> >>)]
          [] nm = "multi-model" ->
               [name |-> "Multi-Model Configuration",
                description |-> "Configuration with multiple model endpoints",
                config |-> M(<< <<"version", S("1.0")>>,
                                <<"port", I(8888)>>,
                                <<"endpoints", L(<<
                                    Endpoint("gpt4", "http://localhost:8001/v1/chat/completions"),
                                    Endpoint("gpt3", "http://localhost:8002/v1/chat/completions") >>)>>,
                                <<"plugins", L(<<
                                    Plugin("semantic-cache",
                                        M(<< <<"enabled", B(TRUE)>>,
                                             <<"similarity_threshold", F(92, 100)>> >>)) >>)>> >>)]]

---------------------------------------------------------------------------
(* validate_plugin, app.py:162-207                                         *)

\* x in SUPPORTED_PLUGINS (list membership compares with ==)
IsSupported(plugin_type) ==
    /\ plugin_type.t = "str"
    /\ \E k \in 1..Len(SUPPORTED_PLUGINS) : SUPPORTED_PLUGINS[k] = plugin_type.s

\* schema = PLUGIN_SCHEMAS.get(plugin_type, {}); schema.get('required', [])
RequiredFields(ty) ==
    IF ty \in DOMAIN PLUGIN_SCHEMAS THEN PLUGIN_SCHEMAS[ty].required ELSE <<>>

\* for field in schema.get('required', []): if field not in config: append
RECURSIVE RequiredLoop(_, _, _, _)
RequiredLoop(fields, k, config, ty) ==
    IF k > Len(fields) THEN Ok(<<>>)
    ELSE IF ~CanContain(config) THEN Raise("TypeError")
    ELSE Then(IF ~PyIn(fields[k], config)
                THEN Ok(<<"Plugin '" \o ty \o "' missing required field: " \o fields[k]>>)
                ELSE Ok(<<>>),
              RequiredLoop(fields, k + 1, config, ty))

CheckRequired(config, ty) == RequiredLoop(RequiredFields(ty), 1, config, ty)

\* if 'enabled' in config and not isinstance(config['enabled'], bool)
CheckEnabled(config, ty) ==
    IF ~CanContain(config) THEN Raise("TypeError")
    ELSE IF ~PyIn("enabled", config) THEN Ok(<<>>)
    ELSE IF ~CanSubscript(config) THEN Raise("TypeError")
    ELSE IF ~IsBool(Subscript(config, "enabled"))
         THEN Ok(<<"Plugin '" \o ty \o "': 'enabled' must be a boolean">>)
         ELSE Ok(<<>>)

\* threshold = config.get('threshold') or config.get('similarity_threshold')
SelectedThreshold(config) ==
    PyOr(Get(config, "threshold", Null), Get(config, "similarity_threshold", Null))

\* not isinstance(threshold, (int, float)) or threshold < 0 or threshold > 1
ThresholdRejected(threshold) ==
    \/ ~IsNumber(threshold)
    \/ LessThanZero(threshold)
    \/ GreaterThanOne(threshold)

CheckThreshold(config, ty) ==
    IF ~CanContain(config) THEN Raise("TypeError")
    ELSE IF ~(PyIn("threshold", config) \/ PyIn("similarity_threshold", config))
         THEN Ok(<<>>)
    ELSE IF ~CanSubscript(config) THEN Raise("AttributeError")
    ELSE IF ThresholdRejected(SelectedThreshold(config))
         THEN Ok(<<"Plugin '" \o ty \o "': threshold must be between 0.0 and 1.0">>)
         ELSE Ok(<<>>)

CheckTtl(config, ty) ==
    IF ~CanContain(config) THEN Raise("TypeError")
    ELSE IF ~PyIn("ttl_seconds", config) THEN Ok(<<>>)
    ELSE IF ~CanSubscript(config) THEN Raise("TypeError")
    ELSE LET ttl == Subscript(config, "ttl_seconds") IN
         IF ~IsInt(ttl) \/ IntOf(ttl) < 0
         THEN Ok(<<"Plugin '" \o ty \o "': ttl_seconds must be a non-negative integer">>)
         ELSE Ok(<<>>)

CheckMaxRecords(config, ty) ==
    IF ~CanContain(config) THEN Raise("TypeError")
    ELSE IF ~PyIn("max_records", config) THEN Ok(<<>>)
    ELSE IF ~CanSubscript(config) THEN Raise("TypeError")
    ELSE LET n == Subscript(config, "max_records") IN
         IF ~IsInt(n) \/ IntOf(n) <= 0
         THEN Ok(<<"Plugin '" \o ty \o "': max_records must be a positive integer">>)
         ELSE Ok(<<>>)

CheckMode(config, ty) ==
    IF ~CanContain(config) THEN Raise("TypeError")
    ELSE IF ~PyIn("mode", config) THEN Ok(<<>>)
    ELSE IF ~CanSubscript(config) THEN Raise("TypeError")
    ELSE IF Subscript(config, "mode") \notin {S("replace"), S("insert")}
         THEN Ok(<<"Plugin '" \o ty \o "': mode must be 'replace' or 'insert'">>)
         ELSE Ok(<<>>)

validate_plugin(plugin) ==
    IF ~CanContain(plugin) THEN Raise("TypeError")
    ELSE IF ~PyIn("type", plugin) THEN Ok(<<"Plugin missing 'type' field">>)
    ELSE IF ~CanSubscript(plugin) THEN Raise("TypeError")
    ELSE LET plugin_type == Subscript(plugin, "type") IN
    IF ~IsSupported(plugin_type)
    THEN Ok(<<"Unsupported plugin type: " \o PyStr(plugin_type)>>)
    ELSE IF ~PyIn("configuration", plugin)
    THEN Ok(<<"Plugin '" \o plugin_type.s \o "' missing 'configuration' field">>)
    ELSE LET config == Subscript(plugin, "configuration")
             ty == plugin_type.s
         IN  Then(CheckRequired(config, ty),
             Then(CheckEnabled(config, ty),
             Then(CheckThreshold(config, ty),
             Then(CheckTtl(config, ty),
             Then(CheckMaxRecords(config, ty),
                  CheckMode(config, ty))))))

---------------------------------------------------------------------------
(* validate_config, app.py:210-252                                         *)

\* if 'version' not in config: append
CheckVersion(config) ==
    IF ~CanContain(config) THEN Raise("TypeError")
    ELSE IF ~PyIn("version", config)
         THEN Ok(<<"Configuration missing 'version' field">>)
         ELSE Ok(<<>>)

\* the two tests on one endpoint, app.py:230-233
EndpointBody(endpoint, i, j) ==
    IF ~CanContain(endpoint) THEN Raise("TypeError")
    ELSE Then(IF ~PyIn("name", endpoint)
                THEN Ok(<<"Listener " \o ToString(i) \o ", endpoint " \o ToString(j)
                            \o " missing 'name' field">>)
                ELSE Ok(<<>>),
              IF ~PyIn("url", endpoint)
                THEN Ok(<<"Listener " \o ToString(i) \o ", endpoint " \o ToString(j)
                            \o " missing 'url' field">>)
                ELSE Ok(<<>>))

\* for j, endpoint in enumerate(listener['endpoints'])
RECURSIVE EndpointLoop(_, _, _)
EndpointLoop(items, k, i) ==
    IF k > Len(items) THEN Ok(<<>>)
    ELSE Then(EndpointBody(items[k], i, k - 1), EndpointLoop(items, k + 1, i))

\* not isinstance(port, int) or port <= 0
PortRejected(port) == ~IsInt(port) \/ IntOf(port) <= 0

\* the port test on one listener, app.py:223-226
CheckPort(listener, i) ==
    IF ~CanContain(listener) THEN Raise("TypeError")
    ELSE IF ~PyIn("port", listener)
         THEN Ok(<<"Listener " \o ToString(i) \o " missing 'port' field">>)
    ELSE IF ~CanSubscript(listener) THEN Raise("TypeError")
    ELSE IF PortRejected(Subscript(listener, "port"))
         THEN Ok(<<"Listener " \o ToString(i) \o ": port must be a positive integer">>)
         ELSE Ok(<<>>)

\* if 'endpoints' in listener: for j, endpoint in enumerate(...), app.py:228-233
CheckEndpoints(listener, i) ==
    IF ~CanContain(listener) THEN Raise("TypeError")
    ELSE IF ~PyIn("endpoints", listener) THEN Ok(<<>>)
    ELSE IF ~CanSubscript(listener) THEN Raise("TypeError")
    ELSE IF ~Iterable(Subscript(listener, "endpoints")) THEN Raise("TypeError")
    ELSE EndpointLoop(Items(Subscript(listener, "endpoints")), 1, i)

ListenerBody(listener, i) == Then(CheckPort(listener, i), CheckEndpoints(listener, i))

\* for i, listener in enumerate(config['listeners'])
RECURSIVE ListenerLoop(_, _)
ListenerLoop(items, k) ==
    IF k > Len(items) THEN Ok(<<>>)
    ELSE Then(ListenerBody(items[k], k - 1), ListenerLoop(items, k + 1))

\* the listeners section, app.py:219-233
CheckListeners(config) ==
    IF ~CanContain(config) THEN Raise("TypeError")
    ELSE IF ~PyIn("listeners", config)
         THEN Ok(<<"Configuration missing 'listeners' field">>)
    ELSE IF ~CanSubscript(config) THEN Raise("TypeError")
    ELSE IF ~Iterable(Subscript(config, "listeners")) THEN Raise("TypeError")
    ELSE ListenerLoop(Items(Subscript(config, "listeners")), 1)

\* [f"Decision {i}: {e}" for e in plugin_errors]
RECURSIVE PrefixFrom(_, _, _)
PrefixFrom(i, errors, k) ==
    IF k > Len(errors) THEN <<>>
    ELSE <<"Decision " \o ToString(i) \o ": " \o errors[k]>>
         \o PrefixFrom(i, errors, k + 1)
PrefixDecision(i, errors) == PrefixFrom(i, errors, 1)

\* plugin_errors = validate_plugin(plugin); errors.extend(...)
PluginBody(plugin, i) ==
    LET r == validate_plugin(plugin)
    IN  IF r.raised THEN r ELSE Ok(PrefixDecision(i, r.errors))

\* for plugin in decision['plugins']
RECURSIVE PluginLoop(_, _, _)
PluginLoop(items, k, i) ==
    IF k > Len(items) THEN Ok(<<>>)
    ELSE Then(PluginBody(items[k], i), PluginLoop(items, k + 1, i))

\* if 'plugins' in decision: ..., app.py:244-247
CheckPlugins(decision, i) ==
    IF ~PyIn("plugins", decision) THEN Ok(<<>>)
    ELSE IF ~CanSubscript(decision) THEN Raise("TypeError")
    ELSE IF ~Iterable(Subscript(decision, "plugins")) THEN Raise("TypeError")
    ELSE PluginLoop(Items(Subscript(decision, "plugins")), 1, i)

\* the body of the decisions loop, app.py:238-247
DecisionBody(decision, i) ==
    IF ~CanContain(decision) THEN Raise("TypeError")
    ELSE Then(IF ~PyIn("name", decision)
                THEN Ok(<<"Decision " \o ToString(i) \o " missing 'name' field">>)
                ELSE Ok(<<>>),
         Then(IF ~PyIn("endpoint", decision)
                THEN Ok(<<"Decision " \o ToString(i) \o " missing 'endpoint' field">>)
                ELSE Ok(<<>>),
              CheckPlugins(decision, i)))

\* for i, decision in enumerate(config['decisions'])
RECURSIVE DecisionLoop(_, _)
DecisionLoop(items, k) ==
    IF k > Len(items) THEN Ok(<<>>)
    ELSE Then(DecisionBody(items[k], k - 1), DecisionLoop(items, k + 1))

\* the decisions section, app.py:236-247
CheckDecisions(config) ==
    IF ~CanContain(config) THEN Raise("TypeError")
    ELSE IF ~PyIn("decisions", config) THEN Ok(<<>>)
    ELSE IF ~CanSubscript(config) THEN Raise("TypeError")
    ELSE IF ~Iterable(Subscript(config, "decisions")) THEN Raise("TypeError")
    ELSE DecisionLoop(Items(Subscript(config, "decisions")), 1)

\* ValidationResult with 'valid' decided by the first defect alone
ValidationResultFirstDefectOnly(errors) ==
    [valid |-> (Len(errors) = 0 \/ errors[1] # "Configuration missing 'version' field"),
     errors |-> errors]

\* return {'valid': len(errors) == 0, 'errors': errors}
ValidationResult(errors) == [valid |-> Len(errors) = 0, errors |-> errors]

\* The value validate_config returns, or the exception it raises.
validate_config(config) ==
    LET r == Then(CheckVersion(config),
             Then(CheckListeners(config), CheckDecisions(config)))
    IN  IF r.raised THEN [raised |-> TRUE, exc |-> r.exc]
        ELSE [raised |-> FALSE, result |-> ValidationResult(r.errors)]

---------------------------------------------------------------------------
(* yaml.dump and yaml.safe_load.  A YAML text is modelled by its node      *)
(* tree: the nodes of the values, an anchor node, written &id001 in front  *)
(* of a node, and an alias node, written *id001.  The graph given to dump  *)
(* holds a reference node wherever generate_config stores one of its local *)
(* list objects, so that the same object stored twice is seen twice.       *)

Ref(id) == [t |-> "ref", id |-> id]
Anchor(name, node) == [t |-> "anchor", id |-> name, node |-> node]
Alias(name) == [t |-> "alias", id |-> name]

\* the values and the keys of a mapping, in key order
RECURSIVE ValuesFrom(_, _), KeysFrom(_, _)
ValuesFrom(pairs, k) ==
    IF k > Len(pairs) THEN <<>> ELSE <<pairs[k][2]>> \o ValuesFrom(pairs, k + 1)
KeysFrom(pairs, k) ==
    IF k > Len(pairs) THEN <<>> ELSE <<pairs[k][1]>> \o KeysFrom(pairs, k + 1)
Values(m) == ValuesFrom(m.kv, 1)
Keys(m) == KeysFrom(m.kv, 1)

\* the pairs of a mapping with its values replaced
RECURSIVE WithValues(_, _, _)
WithValues(pairs, values, k) ==
    IF k > Len(pairs) THEN <<>>
    ELSE << <<pairs[k][1], values[k]>> >> \o WithValues(pairs, values, k + 1)

\* The references of a graph in the order the representer meets them.
RECURSIVE RefsOf(_), RefsOfSeq(_, _)
RefsOf(node) ==
    CASE node.t = "ref" -> <<node.id>>
      [] node.t = "list" -> RefsOfSeq(node.v, 1)
      [] node.t = "map" -> RefsOfSeq(Values(node), 1)
      [] OTHER -> <<>>
RefsOfSeq(items, k) ==
    IF k > Len(items) THEN <<>>
    ELSE RefsOf(items[k]) \o RefsOfSeq(items, k + 1)

\* an object met more than once gets an anchor (Serializer.anchor_node)
Occurrences(id, refs) == {k \in 1..Len(refs) : refs[k] = id}
IsShared(id, refs) == Cardinality(Occurrences(id, refs)) > 1

\* the position at which the object is met the second time
SecondOccurrence(id, refs) ==
    CHOOSE k \in Occurrences(id, refs) :
        Cardinality({j \in Occurrences(id, refs) : j < k}) = 1

\* anchors are numbered id001, id002, ... as the second meetings happen
AnchorName(id, refs) ==
    LET shared == {refs[k] : k \in 1..Len(refs)}
        rank == Cardinality({x \in shared :
                    /\ IsShared(x, refs)
                    /\ SecondOccurrence(x, refs) <= SecondOccurrence(id, refs)})
    IN  "id00" \o ToString(rank)

\* The node tree of a graph; n counts the references met so far.
RECURSIVE DumpNode(_, _, _, _), DumpSeq(_, _, _, _, _)
DumpNode(node, n, refs, heap) ==
    CASE node.t = "ref" ->
           LET isFirst == \A j \in 1..n : refs[j] # node.id
           IN  [n |-> n + 1,
                node |-> IF ~IsShared(node.id, refs) THEN heap[node.id]
                         ELSE IF isFirst
                              THEN Anchor(AnchorName(node.id, refs), heap[node.id])
                              ELSE Alias(AnchorName(node.id, refs))]
      [] node.t = "list" ->
           LET r == DumpSeq(node.v, 1, n, refs, heap)
           IN  [n |-> r.n, node |-> L(r.nodes)]
      [] node.t = "map" ->
           LET r == DumpSeq(Values(node), 1, n, refs, heap)
           IN  [n |-> r.n,
                node |-> M(WithValues(node.kv, r.nodes, 1))]
      [] OTHER -> [n |-> n, node |-> node]
DumpSeq(items, k, n, refs, heap) ==
    IF k > Len(items) THEN [n |-> n, nodes |-> <<>>]
    ELSE LET head == DumpNode(items[k], n, refs, heap)
             rest == DumpSeq(items, k + 1, head.n, refs, heap)
         IN  [n |-> rest.n, nodes |-> <<head.node>> \o rest.nodes]

\* yaml.dump(config, default_flow_style=False, sort_keys=False)
yaml_dump(graph, heap) == DumpNode(graph, 0, RefsOf(graph), heap).node

\* The anchored nodes of a text, as <<name, node>> pairs.
RECURSIVE AnchorsOf(_)
AnchorsOf(node) ==
    CASE node.t = "anchor" -> {<<node.id, node.node>>} \cup AnchorsOf(node.node)
      [] node.t = "list" -> UNION {AnchorsOf(node.v[k]) : k \in 1..Len(node.v)}
      [] node.t = "map" -> UNION {AnchorsOf(node.kv[k][2]) : k \in 1..Len(node.kv)}
      [] OTHER -> {}

\* The value of a node, every alias replaced by the node its anchor marks.
RECURSIVE Compose(_, _), ComposeSeq(_, _, _)
Compose(node, anchors) ==
    CASE node.t = "anchor" -> Compose(node.node, anchors)
      [] node.t = "alias" ->
           Compose((CHOOSE a \in anchors : a[1] = node.id)[2], anchors)
      [] node.t = "list" -> L(ComposeSeq(node.v, 1, anchors))
      [] node.t = "map" ->
           M(WithValues(node.kv, ComposeSeq(Values(node), 1, anchors), 1))
      [] OTHER -> node
ComposeSeq(items, k, anchors) ==
    IF k > Len(items) THEN <<>>
    ELSE <<Compose(items[k], anchors)>> \o ComposeSeq(items, k + 1, anchors)

\* a source text the YAML parser rejects, with the parser's message
InvalidYaml(message) == [t |-> "invalid", message |-> message]

\* yaml.safe_load(text): the document, or a yaml.YAMLError
yaml_safe_load(text) ==
    IF text.t = "invalid"
    THEN [raised |-> TRUE, exc |-> "YAMLError", message |-> text.message]
    ELSE [raised |-> FALSE, value |-> Compose(text, AnchorsOf(text))]

\* whether a text holds an anchor or an alias anywhere
RECURSIVE HasAnchorOrAlias(_)
HasAnchorOrAlias(node) ==
    CASE node.t \in {"anchor", "alias"} -> TRUE
      [] node.t = "list" -> \E k \in 1..Len(node.v) : HasAnchorOrAlias(node.v[k])
      [] node.t = "map" -> \E k \in 1..Len(node.kv) : HasAnchorOrAlias(node.kv[k][2])
      [] OTHER -> FALSE

---------------------------------------------------------------------------
(* generate_config, app.py:255-297                                         *)

DefaultEndpoint == Endpoint("default", DefaultUrl)

\* endpoints = params.get('endpoints', []); if not endpoints: endpoints = [default]
EndpointsOf(params) ==
    LET endpoints == Get(params, "endpoints", L(<<>>))
    IN  IF ~Truthy(endpoints) THEN L(<<DefaultEndpoint>>) ELSE endpoints

\* plugins = params.get('plugins', [])
PluginsOf(params) == Get(params, "plugins", L(<<>>))

\* DecisionFor with the endpoint reference taken from the decision's name
DecisionForRefersToRoute(endpoint, plugins) ==
    M(<< <<"name", S(PyStr(Subscript(endpoint, "name")) \o "_route")>>,
         <<"endpoint", S(PyStr(Subscript(endpoint, "name")) \o "_route")>> >>
      \o (IF Truthy(plugins) THEN << <<"plugins", Ref("plugins")>> >> ELSE <<>>))

\* the decision built for one endpoint, app.py:285-291
DecisionFor(endpoint, plugins) ==
    M(<< <<"name", S(PyStr(Subscript(endpoint, "name")) \o "_route")>>,
         <<"endpoint", Subscript(endpoint, "name")>> >>
      \o (IF Truthy(plugins) THEN << <<"plugins", Ref("plugins")>> >> ELSE <<>>))

\* for endpoint in endpoints: ...; decisions.append(decision)
RECURSIVE DecisionsLoop(_, _, _)
DecisionsLoop(items, k, plugins) ==
    IF k > Len(items) THEN <<>>
    ELSE <<DecisionFor(items[k], plugins)>> \o DecisionsLoop(items, k + 1, plugins)

\* the dict `config` when the function reaches its return, app.py:257-295
ConfigGraph(params) ==
    LET endpoints == EndpointsOf(params)
        plugins == PluginsOf(params)
        listener == M(<< <<"port", Get(params, "port", I(8888))>>,
                         <<"endpoints", Ref("endpoints")>> >>)
        decisions == DecisionsLoop(Items(endpoints), 1, plugins)
    IN  M(<< <<"version", Get(params, "version", S("1.0"))>>,
             <<"listeners", L(<<listener>>)>>,
             <<"decisions", L(decisions)>> >>)

\* the local list objects the graph refers to
ConfigHeap(params) ==
    [endpoints |-> EndpointsOf(params), plugins |-> PluginsOf(params)]

generate_config(params) == yaml_dump(ConfigGraph(params), ConfigHeap(params))

---------------------------------------------------------------------------
(* The HTTP handlers, app.py:300-381.  A response is its status, its       *)
(* mimetype and its body; a handler also reports whether it ran            *)
(* validate_config on the text it generated, and what that said.           *)

Json(status, body) ==
    [status |-> status, mimetype |-> "application/json", body |-> body]
Yaml(status, text) ==
    [status |-> status, mimetype |-> "text/yaml", body |-> text]

NotChecked == [called |-> FALSE, valid |-> FALSE]
Checked(valid) == [called |-> TRUE, valid |-> valid]

\* health, app.py:300-303
health == Json(200, [status |-> "healthy"])

\* generate, app.py:306-330; params is request.get_json()
generate(params) ==
    IF ~Truthy(params)
    THEN [response |-> Json(400, [error |-> "Request body is required"]),
          selfcheck |-> NotChecked]
    ELSE LET config_yaml == generate_config(params)
             config_dict == yaml_safe_load(config_yaml).value
             validation_result == validate_config(config_dict)
         IN  IF validation_result.raised
             THEN [response |-> Json(500, [error |-> validation_result.exc]),
                   selfcheck |-> Checked(FALSE)]
             ELSE IF ~validation_result.result.valid
             THEN [response |->
                       Json(400, [error |-> "Generated configuration is invalid",
                                  validation_errors |-> validation_result.result.errors]),
                   selfcheck |-> Checked(FALSE)]
             ELSE [response |-> Yaml(200, config_yaml),
                   selfcheck |-> Checked(TRUE)]

\* validate, app.py:333-358; data is request.get_json()
validate(data) ==
    IF ~Truthy(data) \/ ~PyIn("config", data)
    THEN Json(400, [error |-> "Request must include \"config\" field"])
    ELSE LET config_str == Subscript(data, "config")
             loaded == yaml_safe_load(config_str)
         IN  IF loaded.raised
             THEN Json(200, [valid |-> FALSE,
                             errors |-> <<"Invalid YAML: " \o loaded.message>>])
             ELSE LET result == validate_config(loaded.value)
                  IN  IF result.raised THEN Json(500, [error |-> result.exc])
                      ELSE Json(200, result.result)

\* templates, app.py:361-364
templates == Json(200, CONFIGURATION_TEMPLATES)

\* get_template, app.py:367-381
get_template(template_name) ==
    IF template_name \notin DOMAIN CONFIGURATION_TEMPLATES
    THEN [response |->
              Json(404, [error |-> "Template \"" \o template_name \o "\" not found"]),
          selfcheck |-> NotChecked]
    ELSE LET template == CONFIGURATION_TEMPLATES[template_name]
             config_yaml == generate_config(template.config)
         IN  [response |-> Yaml(200, config_yaml), selfcheck |-> NotChecked]

---------------------------------------------------------------------------
(* The inputs the calls are given.                                         *)

MaxItems == 2       \* longest listener, endpoint, decision and plugin list of a document
MaxEndpoints == 2   \* longest endpoint list of a parameter bag
MaxPlugins == 1     \* longest plugin list of a parameter bag

Seqs(choices, n) == UNION {[1..k -> choices] : k \in 0..n}

\* values that are not a mapping; among them a str and a list that hold key
NotAMapping(key) ==
    {Null, I(7), B(TRUE), S("junk"), L(<<>>), S(key), L(<<S(key)>>)}

\* plugin configurations: each field absent, acceptable or not
EnabledChoices == {<<>>, << <<"enabled", B(TRUE)>> >>, << <<"enabled", S("yes")>> >>}
ThresholdChoices ==
    {<<>>} \cup
    {<< <<"threshold", v>> >> :
        v \in {I(0), F(0, 1), F(1, 2), I(1), F(1, 1), F(3, 2), F(-1, 2), I(2),
               S("high"), B(TRUE), Null}}
SimilarityChoices ==
    {<<>>} \cup
    {<< <<"similarity_threshold", v>> >> : v \in {F(92, 100), F(3, 2), I(0)}}
TtlChoices == {<<>>, << <<"ttl_seconds", I(3600)>> >>, << <<"ttl_seconds", I(-1)>> >>}
MaxRecordsChoices ==
    {<<>>, << <<"max_records", I(10)>> >>, << <<"max_records", I(0)>> >>}
ModeChoices == {<<>>, << <<"mode", S("insert")>> >>, << <<"mode", S("append")>> >>}

ConfigurationInputs ==
    {M(e \o th \o si) :
        e \in {<< <<"enabled", B(TRUE)>> >>},
        th \in ThresholdChoices, si \in SimilarityChoices}
    \cup
    {M(e \o th \o tt \o mr \o mo) :
        e \in EnabledChoices,
        th \in {<<>>, << <<"threshold", F(3, 2)>> >>},
        tt \in {<<>>, << <<"ttl_seconds", I(-1)>> >>},
        mr \in {<<>>, << <<"max_records", I(0)>> >>},
        mo \in {<<>>, << <<"mode", S("append")>> >>}}
    \cup {M(e \o tt \o mr \o mo) :
        e \in {<< <<"enabled", B(FALSE)>> >>},
        tt \in TtlChoices, mr \in MaxRecordsChoices, mo \in ModeChoices}

PluginInputs ==
    NotAMapping("type")
    \cup {M(<<>>),
          M(<< <<"configuration", M(<<>>)>> >>),
          M(<< <<"type", S("bogus")>> >>),
          M(<< <<"type", I(7)>>, <<"configuration", M(<<>>)>> >>),
          M(<< <<"type", Null>> >>),
          M(<< <<"type", S("pii")>> >>)}
    \cup {Plugin("pii", c) : c \in NotAMapping("enabled")}
    \cup {Plugin("header_mutation", c) :
            c \in {Null, L(<<>>), M(<<>>), M(<< <<"mode", S("append")>> >>)}}
    \cup {Plugin("jailbreak", c) : c \in ConfigurationInputs}

\* a few plugins for the plugin lists of documents and parameter bags
GoodPlugin == Plugin("semantic-cache", M(<< <<"enabled", B(TRUE)>> >>))
RejectedPlugin == Plugin("jailbreak", M(<< <<"threshold", F(3, 2)>> >>))
RaisingPlugin == Plugin("pii", Null)

PortChoices ==
    {<<>>} \cup
    {<< <<"port", v>> >> :
        v \in {I(8888), I(0), I(-1), B(TRUE), B(FALSE), S("8888"), F(1, 1),
               F(17777, 2), Null}}

GoodListener ==
    M(<< <<"port", I(8888)>>, <<"endpoints", L(<<DefaultEndpoint>>)>> >>)
GoodDecision ==
    M(<< <<"name", S("default_route")>>, <<"endpoint", S("default")>> >>)

Document(listeners, decisions) ==
    M(<< <<"version", S("1.0")>>, <<"listeners", listeners>>,
         <<"decisions", decisions>> >>)

DocumentInputs ==
    NotAMapping("listeners")
    \cup {M(<<>>),
          M(<< <<"version", S("1.0")>> >>),
          M(<< <<"listeners", L(<<GoodListener>>)>> >>),
          M(<< <<"version", S("1.0")>>, <<"listeners", L(<<GoodListener>>)>> >>)}
    \* the listeners, or the decisions, are not a sequence
    \cup {Document(x, L(<<GoodDecision>>)) : x \in NotAMapping("port") \cup {M(<<>>)}}
    \cup {Document(L(<<GoodListener>>), x) :
            x \in NotAMapping("plugins") \cup {M(<<>>)}}
    \* one listener with each port
    \cup {Document(L(<<M(p)>>), L(<<>>)) : p \in PortChoices}
    \* lists of listeners
    \cup {Document(L(ls), L(<<GoodDecision>>)) :
            ls \in Seqs({GoodListener, M(<<>>), S("port"), Null}, MaxItems)}
    \* lists of endpoints, or something else, in the second listener
    \cup {Document(L(<<M(<<>>), M(<< <<"port", I(80)>>, <<"endpoints", L(es)>> >>)>>),
                   L(<<>>)) :
            es \in Seqs({DefaultEndpoint, M(<<>>),
                         M(<< <<"url", S("u")>> >>), S("junk")}, MaxItems)}
    \cup {Document(L(<<M(<< <<"port", I(80)>>, <<"endpoints", x>> >>)>>), L(<<>>)) :
            x \in NotAMapping("name")}
    \* lists of decisions
    \cup {Document(L(<<GoodListener>>), L(ds)) :
            ds \in Seqs({GoodDecision, M(<<>>), I(7),
                         M(<< <<"name", S("r")>>,
                              <<"plugins", L(<<RejectedPlugin, M(<<>>)>>)>> >>)},
                        MaxItems)}
    \* lists of plugins, or something else, in the second decision
    \cup {Document(L(<<GoodListener>>),
                   L(<<GoodDecision,
                       M(<< <<"name", S("r")>>, <<"endpoint", S("default")>>,
                            <<"plugins", L(ps)>> >>)>>)) :
            ps \in Seqs({GoodPlugin, RejectedPlugin, RaisingPlugin, M(<<>>)}, MaxItems)}
    \cup {Document(L(<<GoodListener>>),
                   L(<<M(<< <<"name", S("r")>>, <<"endpoint", S("default")>>,
                            <<"plugins", x>> >>)>>)) :
            x \in NotAMapping("type")}

\* parameter bags: a mapping with some of version, port, endpoints, plugins
BagEndpoints ==
    {<<>>} \cup
    {<< <<"endpoints", L(es)>> >> :
        es \in Seqs({Endpoint("a", "u1"), Endpoint("b", "u2")}, MaxEndpoints)}
BagPlugins ==
    {<<>>} \cup
    {<< <<"plugins", L(ps)>> >> : ps \in Seqs({GoodPlugin, RaisingPlugin}, MaxPlugins)}

BagInputs ==
    {M(po \o es \o ps) :
        po \in {<<>>, << <<"port", I(9000)>> >>}, es \in BagEndpoints, ps \in BagPlugins}
    \cup {M(<< <<"version", S("2.0")>> >>),
          M(<< <<"port", I(-1)>> >>),
          M(<< <<"port", S("http")>>, <<"version", I(2)>> >>),
          M(<< <<"plugins", L(<<RejectedPlugin>>)>>, <<"port", I(9000)>> >>)}
    \cup {CONFIGURATION_TEMPLATES[nm].config : nm \in DOMAIN CONFIGURATION_TEMPLATES}

\* request bodies of POST /generate: nothing, or a parameter bag
GenerateRequests == {Null} \cup BagInputs

\* request bodies of POST /validate: nothing, a body without 'config', or a
\* body whose 'config' is a YAML text
ValidateTexts ==
    {InvalidYaml("mapping values are not allowed here")}
    \cup NotAMapping("listeners")
    \cup {d \in DocumentInputs : d.t = "map" /\ Len(d.kv) < 3}
    \cup {Document(L(<<M(p)>>), L(<<>>)) : p \in PortChoices}
    \cup {generate_config(CONFIGURATION_TEMPLATES[nm].config) :
            nm \in DOMAIN CONFIGURATION_TEMPLATES}
ValidateRequests ==
    {Null, M(<<>>), M(<< <<"yaml", S("version: 1")>> >>)}
    \cup {M(<< <<"config", text>> >>) : text \in ValidateTexts}

TemplateRequests == TemplateNames \cup {"missing"}

---------------------------------------------------------------------------
(* The state machine.  The process is ready for a call; a call runs to its *)
(* return in one step (the code is synchronous and single-threaded) and    *)
(* leaves its input and its result in the state; the caller then drops     *)
(* them and the process is ready again.                                    *)

Init ==
    /\ SUPPORTED_PLUGINS = SupportedPluginsInit
    /\ PLUGIN_SCHEMAS = PluginSchemasInit
    /\ CONFIGURATION_TEMPLATES = ConfigurationTemplatesInit
    /\ pc = "ready"
    /\ op = "import"
    /\ arg0 = Null
    /\ arg = Null
    /\ out = Null
    /\ selfcheck = NotChecked

ValidatePlugin(plugin) ==
    /\ pc = "ready"
    /\ pc' = "returned"
    /\ op' = "validate_plugin"
    /\ arg0' = plugin
    /\ arg' = plugin
    /\ out' = validate_plugin(plugin)
    /\ selfcheck' = NotChecked
    /\ UNCHANGED tables

ValidateConfig(config) ==
    /\ pc = "ready"
    /\ pc' = "returned"
    /\ op' = "validate_config"
    /\ arg0' = config
    /\ arg' = config
    /\ out' = validate_config(config)
    /\ selfcheck' = NotChecked
    /\ UNCHANGED tables

\* the caller validates the document it holds once more
ValidateAgain ==
    /\ pc = "returned"
    /\ op = "validate_config"
    /\ out' = validate_config(arg)
    /\ UNCHANGED <<pc, op, arg0, arg, selfcheck>>
    /\ UNCHANGED tables

\* GenerateConfig with params.setdefault('endpoints', [...]) for params.get
GenerateConfigSetsDefault(params) ==
    /\ pc = "ready"
    /\ pc' = "returned"
    /\ op' = "generate_config"
    /\ arg0' = params
    /\ arg' = IF PyIn("endpoints", params) THEN params
              ELSE M(params.kv \o << <<"endpoints", L(<<DefaultEndpoint>>)>> >>)
    /\ out' = generate_config(params)
    /\ selfcheck' = NotChecked
    /\ UNCHANGED tables

GenerateConfig(params) ==
    /\ pc = "ready"
    /\ pc' = "returned"
    /\ op' = "generate_config"
    /\ arg0' = params
    /\ arg' = params
    /\ out' = generate_config(params)
    /\ selfcheck' = NotChecked
    /\ UNCHANGED tables

Health ==
    /\ pc = "ready"
    /\ pc' = "returned"
    /\ op' = "health"
    /\ arg0' = Null
    /\ arg' = Null
    /\ out' = health
    /\ selfcheck' = NotChecked
    /\ UNCHANGED tables

Generate(params) ==
    /\ pc = "ready"
    /\ pc' = "returned"
    /\ op' = "generate"
    /\ arg0' = params
    /\ arg' = params
    /\ out' = generate(params).response
    /\ selfcheck' = generate(params).selfcheck
    /\ UNCHANGED tables

Validate(data) ==
    /\ pc = "ready"
    /\ pc' = "returned"
    /\ op' = "validate"
    /\ arg0' = data
    /\ arg' = data
    /\ out' = validate(data)
    /\ selfcheck' = NotChecked
    /\ UNCHANGED tables

Templates ==
    /\ pc = "ready"
    /\ pc' = "returned"
    /\ op' = "templates"
    /\ arg0' = Null
    /\ arg' = Null
    /\ out' = templates
    /\ selfcheck' = NotChecked
    /\ UNCHANGED tables

GetTemplate(template_name) ==
    /\ pc = "ready"
    /\ pc' = "returned"
    /\ op' = "get_template"
    /\ arg0' = S(template_name)
    /\ arg' = S(template_name)
    /\ out' = get_template(template_name).response
    /\ selfcheck' = get_template(template_name).selfcheck
    /\ UNCHANGED tables

\* the caller is done with the result
Return ==
    /\ pc = "returned"
    /\ pc' = "ready"
    /\ op' = "import"
    /\ arg0' = Null
    /\ arg' = Null
    /\ out' = Null
    /\ selfcheck' = NotChecked
    /\ UNCHANGED tables

Next ==
    \/ \E plugin \in PluginInputs : ValidatePlugin(plugin)
    \/ \E config \in DocumentInputs : ValidateConfig(config)
    \/ ValidateAgain
    \/ \E params \in BagInputs : GenerateConfig(params)
    \/ Health
    \/ \E params \in GenerateRequests : Generate(params)
    \/ \E data \in ValidateRequests : Validate(data)
    \/ Templates
    \/ \E template_name \in TemplateRequests : GetTemplate(template_name)
    \/ Return

Spec == Init /\ [][Next]_vars

---------------------------------------------------------------------------
(* Properties.                                                             *)

Returned(name) == pc = "returned" /\ op = name

InSeq(x, seq) == \E k \in 1..Len(seq) : seq[k] = x

If(condition, defect) == IF condition THEN <<defect>> ELSE <<>>

IsMapping(v) == v.t = "map"
IsList(v) == v.t = "list"
Has(v, key) == IsMapping(v) /\ \E k \in 1..Len(v.kv) : v.kv[k][1] = key

\* the defect list of a validate_config outcome; none when it raised
ErrorsOf(outcome) == IF outcome.raised THEN <<>> ELSE outcome.result.errors

\* C1: validate_config and validate_plugin return a result for every input
\* value, whatever its shape; they never raise.
C1_ValidatorsNeverRaise ==
    (Returned("validate_plugin") \/ Returned("validate_config")) => ~out.raised

\* C2: a response that carries generate_config's text (from the generate
\* handler or the named-template handler) was preceded by validate_config on
\* that text, and the result was valid; a failed self-validation returns the
\* defect list instead of the text.
C2_SurfacedTextWasValidated ==
    /\ ((Returned("generate") \/ Returned("get_template")) /\ out.mimetype = "text/yaml")
          => (selfcheck.called /\ selfcheck.valid)
    /\ (Returned("generate") /\ selfcheck.called /\ ~selfcheck.valid)
          => out.mimetype = "application/json"

\* the plugins whose threshold check is reached: a mapping with a supported
\* type and a mapping as configuration
ReachesFieldChecks(plugin) ==
    /\ Has(plugin, "type")
    /\ Subscript(plugin, "type").t = "str"
    /\ InSeq(Subscript(plugin, "type").s, SupportedPluginsInit)
    /\ Has(plugin, "configuration")
    /\ IsMapping(Subscript(plugin, "configuration"))

ThresholdDefect(ty) == "Plugin '" \o ty \o "': threshold must be between 0.0 and 1.0"

\* the threshold that is present: 'threshold' unless it is absent, or both
\* are present and 'threshold' is falsy
PresentThreshold(config) ==
    IF Has(config, "threshold")
       /\ (~Has(config, "similarity_threshold") \/ Truthy(Subscript(config, "threshold")))
    THEN Subscript(config, "threshold")
    ELSE Subscript(config, "similarity_threshold")

\* numeric and in the closed interval [0.0, 1.0]
InUnitInterval(v) == IsNumber(v) /\ ~LessThanZero(v) /\ ~GreaterThanOne(v)

ThresholdCheckFails(config) ==
    /\ Has(config, "threshold") \/ Has(config, "similarity_threshold")
    /\ ~InUnitInterval(PresentThreshold(config))

\* C3: the threshold defect is emitted if and only if 'threshold' or
\* 'similarity_threshold' is present and the present value is not a number
\* in [0.0, 1.0]; a present 0 or 1 gives no defect.
C3_ThresholdDefectIffOutOfRange ==
    (Returned("validate_plugin") /\ ReachesFieldChecks(arg0)) =>
        LET config == Subscript(arg0, "configuration")
            ty == Subscript(arg0, "type").s
        IN  InSeq(ThresholdDefect(ty), out.errors) <=> ThresholdCheckFails(config)

\* what a parameter bag supplies
SuppliedEndpoints(params) ==
    IF Has(params, "endpoints") /\ Subscript(params, "endpoints").v # <<>>
    THEN Subscript(params, "endpoints").v
    ELSE <<Endpoint("default", "http://localhost:8000/v1/chat/completions")>>
SuppliedPort(params) ==
    IF Has(params, "port") THEN Subscript(params, "port") ELSE I(8888)
SuppliesPlugins(params) ==
    Has(params, "plugins") /\ Subscript(params, "plugins").v # <<>>

\* C4: the generated document has exactly one listener, carrying the given
\* port (8888 when absent) and the given endpoint list (the 'default'
\* endpoint when absent or empty); it has one decision per endpoint, in
\* order, decision k named '<name of endpoint k>_route' and referring to
\* endpoint k by name; every decision carries the supplied plugin list when
\* a non-empty one was supplied, and no 'plugins' key otherwise.
C4_GeneratedDocumentShape ==
    Returned("generate_config") =>
        LET document == yaml_safe_load(out).value
            listeners == Subscript(document, "listeners").v
            decisions == Subscript(document, "decisions").v
            endpoints == SuppliedEndpoints(arg0)
        IN  /\ Len(listeners) = 1
            /\ Keys(listeners[1]) = <<"port", "endpoints">>
            /\ Subscript(listeners[1], "port") = SuppliedPort(arg0)
            /\ Subscript(listeners[1], "endpoints") = L(endpoints)
            /\ Len(decisions) = Len(endpoints)
            /\ \A k \in 1..Len(decisions) :
                 /\ Subscript(decisions[k], "name")
                      = S(Subscript(endpoints[k], "name").s \o "_route")
                 /\ Subscript(decisions[k], "endpoint") = Subscript(endpoints[k], "name")
                 /\ IF SuppliesPlugins(arg0)
                    THEN /\ Keys(decisions[k]) = <<"name", "endpoint", "plugins">>
                         /\ Subscript(decisions[k], "plugins") = Subscript(arg0, "plugins")
                    ELSE Keys(decisions[k]) = <<"name", "endpoint">>

\* generate_config returned for a bag with a port, two endpoints and a plugin
C4_Witness ==
    /\ Returned("generate_config")
    /\ Has(arg0, "port")
    /\ Has(arg0, "endpoints") /\ Len(Subscript(arg0, "endpoints").v) = 2
    /\ SuppliesPlugins(arg0)
    /\ Len(Subscript(yaml_safe_load(out).value, "decisions").v) = 2

\* C5: the text generate_config returns has the top-level keys version,
\* listeners, decisions in that order and holds no anchor and no alias, also
\* when one plugin list is attached to several decisions.
C5_TextKeyOrderAndNoAliases ==
    Returned("generate_config") =>
        /\ Keys(out) = <<"version", "listeners", "decisions">>
        /\ ~HasAnchorOrAlias(out)

\* a positive integer; a bool is not one
IsPositiveInteger(v) == v.t = "int" /\ v.i > 0

\* the port defects of listener i among the defects
PortDefectCount(errors, i) ==
    Cardinality({k \in 1..Len(errors) :
        errors[k] \in {"Listener " \o ToString(i) \o " missing 'port' field",
                       "Listener " \o ToString(i) \o ": port must be a positive integer"}})

\* C6: for every listener i, exactly one port defect is recorded when 'port'
\* is absent or is not a positive integer (a bool, a str, a float, null, zero
\* or a negative number), and none otherwise.
C6_PortDefectIffNotPositiveInteger ==
    (/\ Returned("validate_config")
     /\ ~out.raised
     /\ Has(arg0, "listeners")
     /\ IsList(Subscript(arg0, "listeners"))) =>
        LET listeners == Subscript(arg0, "listeners").v
        IN  \A k \in 1..Len(listeners) :
                IsMapping(listeners[k]) =>
                    PortDefectCount(out.result.errors, k - 1)
                      = IF ~Has(listeners[k], "port")
                           \/ ~IsPositiveInteger(Subscript(listeners[k], "port"))
                        THEN 1 ELSE 0

\* the required fields of a type that a configuration lacks, in schema order
MissingRequired(config, ty) ==
    LET Defect(field) == "Plugin '" \o ty \o "' missing required field: " \o field
        RECURSIVE From(_)
        From(k) ==
            IF k > Len(PluginSchemasInit[ty].required) THEN <<>>
            ELSE If(~Has(config, PluginSchemasInit[ty].required[k]),
                    Defect(PluginSchemasInit[ty].required[k])) \o From(k + 1)
    IN  From(1)

\* one defect per failing non-blocking check, in the order of the checks
NonBlockingDefects(config, ty) ==
    MissingRequired(config, ty)
    \o If(Has(config, "enabled") /\ ~IsBool(Subscript(config, "enabled")),
          "Plugin '" \o ty \o "': 'enabled' must be a boolean")
    \o If(ThresholdCheckFails(config), ThresholdDefect(ty))
    \o If(Has(config, "ttl_seconds")
            /\ ~(IsInt(Subscript(config, "ttl_seconds"))
                 /\ IntOf(Subscript(config, "ttl_seconds")) >= 0),
          "Plugin '" \o ty \o "': ttl_seconds must be a non-negative integer")
    \o If(Has(config, "max_records")
            /\ ~(IsInt(Subscript(config, "max_records"))
                 /\ IntOf(Subscript(config, "max_records")) > 0),
          "Plugin '" \o ty \o "': max_records must be a positive integer")
    \o If(Has(config, "mode")
            /\ Subscript(config, "mode") \notin {S("replace"), S("insert")},
          "Plugin '" \o ty \o "': mode must be 'replace' or 'insert'")

IsSupportedType(v) == v.t = "str" /\ InSeq(v.s, SupportedPluginsInit)

\* C7: validate_plugin runs type-present, type-supported and
\* configuration-present first, and the first of them that fails gives the
\* only defect; when the three pass, every other check runs (required
\* fields, enabled, threshold, ttl_seconds, max_records, mode), none
\* suppresses another, and the result is one defect per failing check in
\* that order.
C7_ChecksInOrderNoneSuppressed ==
    (Returned("validate_plugin") /\ IsMapping(arg0)) =>
        IF ~Has(arg0, "type")
        THEN out = Ok(<<"Plugin missing 'type' field">>)
        ELSE IF ~IsSupportedType(Subscript(arg0, "type"))
        THEN out = Ok(<<"Unsupported plugin type: " \o PyStr(Subscript(arg0, "type"))>>)
        ELSE IF ~Has(arg0, "configuration")
        THEN out = Ok(<<"Plugin '" \o Subscript(arg0, "type").s
                          \o "' missing 'configuration' field">>)
        ELSE /\ ~out.raised
             /\ IsMapping(Subscript(arg0, "configuration")) =>
                  out.errors = NonBlockingDefects(Subscript(arg0, "configuration"),
                                                  Subscript(arg0, "type").s)

\* the defects of a document whose sections and entries all have the
\* expected shape, in document order
RECURSIVE EndpointDefects(_, _, _), ListenerDefects(_, _)
EndpointDefects(endpoints, i, k) ==
    IF k > Len(endpoints) THEN <<>>
    ELSE If(~Has(endpoints[k], "name"),
            "Listener " \o ToString(i) \o ", endpoint " \o ToString(k - 1)
              \o " missing 'name' field")
         \o If(~Has(endpoints[k], "url"),
               "Listener " \o ToString(i) \o ", endpoint " \o ToString(k - 1)
                 \o " missing 'url' field")
         \o EndpointDefects(endpoints, i, k + 1)
ListenerDefects(listeners, k) ==
    IF k > Len(listeners) THEN <<>>
    ELSE If(~Has(listeners[k], "port"),
            "Listener " \o ToString(k - 1) \o " missing 'port' field")
         \o If(Has(listeners[k], "port") /\ PortRejected(Subscript(listeners[k], "port")),
               "Listener " \o ToString(k - 1) \o ": port must be a positive integer")
         \o (IF Has(listeners[k], "endpoints")
             THEN EndpointDefects(Subscript(listeners[k], "endpoints").v, k - 1, 1)
             ELSE <<>>)
         \o ListenerDefects(listeners, k + 1)

RECURSIVE PluginDefects(_, _, _), DecisionDefects(_, _)
PluginDefects(plugins, i, k) ==
    IF k > Len(plugins) THEN <<>>
    ELSE PrefixDecision(i, validate_plugin(plugins[k]).errors)
         \o PluginDefects(plugins, i, k + 1)
DecisionDefects(decisions, k) ==
    IF k > Len(decisions) THEN <<>>
    ELSE If(~Has(decisions[k], "name"),
            "Decision " \o ToString(k - 1) \o " missing 'name' field")
         \o If(~Has(decisions[k], "endpoint"),
               "Decision " \o ToString(k - 1) \o " missing 'endpoint' field")
         \o (IF Has(decisions[k], "plugins")
             THEN PluginDefects(Subscript(decisions[k], "plugins").v, k - 1, 1)
             ELSE <<>>)
         \o DecisionDefects(decisions, k + 1)

DocumentDefects(document) ==
    If(~Has(document, "version"), "Configuration missing 'version' field")
    \o (IF Has(document, "listeners")
        THEN ListenerDefects(Subscript(document, "listeners").v, 1)
        ELSE <<"Configuration missing 'listeners' field">>)
    \o (IF Has(document, "decisions")
        THEN DecisionDefects(Subscript(document, "decisions").v, 1)
        ELSE <<>>)

\* every entry of a list is a mapping, and the lists under key are lists of
\* mappings
AllMappings(items) == \A k \in 1..Len(items) : IsMapping(items[k])
ListOfMappings(v) == IsList(v) /\ AllMappings(v.v)
NestedListsOfMappings(items, key) ==
    \A k \in 1..Len(items) :
        Has(items[k], key) => ListOfMappings(Subscript(items[k], key))

WellShaped(document) ==
    /\ Has(document, "listeners") =>
         /\ ListOfMappings(Subscript(document, "listeners"))
         /\ NestedListsOfMappings(Subscript(document, "listeners").v, "endpoints")
    /\ Has(document, "decisions") =>
         /\ ListOfMappings(Subscript(document, "decisions"))
         /\ NestedListsOfMappings(Subscript(document, "decisions").v, "plugins")
         /\ \A k \in 1..Len(Subscript(document, "decisions").v) :
              LET decision == Subscript(document, "decisions").v[k]
              IN  Has(decision, "plugins") =>
                    \A j \in 1..Len(Subscript(decision, "plugins").v) :
                        ~validate_plugin(Subscript(decision, "plugins").v[j]).raised

\* the entries of a list that are mappings without key (each owes a defect)
OwedMissing(v, key) ==
    IF IsList(v) THEN {k \in 1..Len(v.v) : IsMapping(v.v[k]) /\ ~Has(v.v[k], key)}
    ELSE {}

\* C8: validate_config gathers the defects in one flat list in document
\* order (version; listeners by index: port, then endpoints by index: name,
\* url; decisions by index: name, endpoint, then each plugin's defects,
\* prefixed 'Decision {i}: '), and a defect in one section, listener,
\* endpoint, decision or plugin never suppresses the checks of a sibling.
C8_DefectsInDocumentOrderNoneSuppressed ==
    (Returned("validate_config") /\ IsMapping(arg0)) =>
        /\ WellShaped(arg0) => (~out.raised /\ out.result.errors = DocumentDefects(arg0))
        /\ Has(arg0, "listeners") =>
             \A k \in OwedMissing(Subscript(arg0, "listeners"), "port") :
                 InSeq("Listener " \o ToString(k - 1) \o " missing 'port' field",
                       ErrorsOf(out))
        /\ Has(arg0, "decisions") =>
             \A k \in OwedMissing(Subscript(arg0, "decisions"), "name") :
                 InSeq("Decision " \o ToString(k - 1) \o " missing 'name' field",
                       ErrorsOf(out))

\* C9: in every ValidationResult, from validate_config and from the
\* parse-failure path of the validate handler, 'valid' is true exactly when
\* 'errors' is empty.
C9_ValidIffNoErrors ==
    /\ (Returned("validate_config") /\ ~out.raised) =>
          (out.result.valid <=> Len(out.result.errors) = 0)
    /\ (Returned("validate") /\ out.status = 200) =>
          (out.body.valid <=> Len(out.body.errors) = 0)

\* the validate handler answered a text the parser rejects
C9_Witness ==
    /\ Returned("validate")
    /\ Has(arg0, "config")
    /\ Subscript(arg0, "config").t = "invalid"
    /\ out.status = 200
    /\ ~out.body.valid
    /\ Len(out.body.errors) = 1

====
